---- MODULE Spec2Model ----
(***************************************************************************)
(* The Session & Execution Controller of the notebook editor (App.jsx):    *)
(* the React state of the App component, the WebSocket instances it        *)
(* creates, the timers it arms and the HTTP requests it has in flight.     *)
(* Every event handler runs to completion (one action per handler, the     *)
(* effects React runs after the resulting render included).                *)
(*                                                                         *)
(* Text is a sequence of one-character strings, so that concatenation,     *)
(* split and join are computed.  A value that is null in the program is    *)
(* an empty sequence when the value is an object, NoCell when it is a cell *)
(* index and NullToken when it is the token; see each definition.          *)
(***************************************************************************)
EXTENDS Integers, Sequences, FiniteSets, TLC

\* ------------------------------------------------------------------ bounds
MaxSockets == 2      \* WebSocket instances created in one run of the model
MaxCells   == 3      \* cells in the Document
MaxEvents  == 3      \* output events the cells of the Document record
MaxOutbox  == 2      \* frames sent on one connection and not yet read by the server
MaxFetch   == 1      \* outstanding list requests that are counted
MaxPending == 1      \* outstanding notebook requests

\* setTimeout(..., 2000) of the autosave effect, in ticks of 1000 ms
AutosaveDelay == 2

\* ------------------------------------------------------------- text values
Str_Executando == <<"E","x","e","c","u","t","a","n","d","o",".",".",".">>
Str_print == <<"p","r","i","n","t","(","'","O","l","a","!","'",")">>
Str_NovaCelula == <<"#"," ","N","o","v","a">>
Str_Clique == <<"C","l","i","q","u","e">>
Str_hi == <<"h","i","\n">>

RECURSIVE Concat(_)
\* the concatenation of a sequence of texts
Concat(ss) == IF ss = <<>> THEN <<>> ELSE Head(ss) \o Concat(Tail(ss))

\* s occurs in t as a contiguous piece
Contains(t, s) ==
  \E k \in 0..(Len(t) - Len(s)) : SubSeq(t, k + 1, k + Len(s)) = s

RECURSIVE JoinLines(_)
\* Array.prototype.join('\n')
JoinLines(ls) ==
  IF ls = <<>> THEN <<>>
  ELSE IF Len(ls) = 1 THEN ls[1]
  ELSE ls[1] \o <<"\n">> \o JoinLines(Tail(ls))

RECURSIVE SplitLines(_)
\* String.prototype.split('\n'): never the empty array
SplitLines(t) ==
  IF \A k \in 1..Len(t) : t[k] # "\n" THEN <<t>>
  ELSE LET k == CHOOSE j \in 1..Len(t) : t[j] = "\n" /\ \A m \in 1..(j-1) : t[m] # "\n"
       IN <<SubSeq(t, 1, k - 1)>> \o SplitLines(SubSeq(t, k + 1, Len(t)))

\* ----------------------------------------------------------- null values
NoCell == -1                 \* activeCellIndex / executingCellIndex === null
NullToken == <<"null">>      \* token === null (no text is this one-element value)
NoName == ""                 \* currentNotebook === null
NoContent == <<>>            \* content === null; a loaded Document d is <<d>>
NoStats == <<>>              \* resourceStats === null; a stats object s is <<s>>

\* JavaScript: t + ' '
PlusSpace(t) ==
  IF t = NullToken THEN <<"n","u","l","l"," ">> ELSE Append(t, " ")

\* JavaScript truthiness of the token
Truthy(t) == t # NullToken /\ t # <<>>

\* ------------------------------------------------------------ cell templates
\* `log` is a history field: the output events applied to the cell since its
\* outputs were last replaced wholesale or emptied.
EMPTY_MARKDOWN_CELL ==
  [cell_type |-> "markdown", source |-> <<Str_NovaCelula, Str_Clique>>,
   outputs |-> <<>>, log |-> <<>>]

EMPTY_CODE_CELL ==
  [cell_type |-> "code", source |-> <<Str_print>>, outputs |-> <<>>, log |-> <<>>]

EMPTY_NOTEBOOK_CONTENT == [cells |-> <<EMPTY_MARKDOWN_CELL>>]

\* ------------------------------------------------------------------- inputs
Tokens == {<<"a">>, <<"b">>}
Names == {"n1.ipynb", "n2.ipynb"}
Chunks == {<<>>, Str_hi, <<"E">>}
Texts == {<<"x">>, <<"x","\n","y">>}
StatValues == {1, 2}
\* the frames a server can send: {type, content}
Frames ==
  [type : {"stream", "stdout", "stderr"}, content : Chunks]
  \cup [type : {"resource_stats", "disk_stats"}, content : StatValues]
  \cup [type : {"filesystem_update", "ping"}, content : {0}]

\* close events {code, reason}; 1006 is a failed connection (error event
\* first), 1005 the answer to a close() of the client
CloseEvents ==
  [code : {1000, 1008}, reason : {"", "Kernel restarting"}]
  \cup {[code |-> 1005, reason |-> ""], [code |-> 1006, reason |-> ""]}

\* the file names of the storage service: those of the notebooks it holds
\* at start, and one that is free
Files == Names \cup {"n3.ipynb"}

\* what the storage service holds at start
InitialStore ==
  [n \in Files |->
     IF n = "n1.ipynb"
       THEN <<[cells |-> <<EMPTY_CODE_CELL, EMPTY_MARKDOWN_CELL, EMPTY_CODE_CELL>>]>>
       ELSE IF n = "n2.ipynb" THEN <<EMPTY_NOTEBOOK_CONTENT>>
       ELSE NoContent]

St(m) == [msg |-> m, arg |-> ""]
StN(m, n) == [msg |-> m, arg |-> n]

VARIABLES
  token,              \* useState token
  stored,             \* localStorage 'meuColabToken'
  route,              \* the router's location
  sockets,            \* every WebSocket instance created, in creation order
  socket,             \* useState socket: an index of sockets, 0 for null
  reconnect,          \* sockets whose close armed the 1000 ms reconnection timer
  content,            \* useState content
  currentNotebook,    \* useState currentNotebook
  activeCellIndex,    \* useState activeCellIndex
  executingCellIndex, \* useState executingCellIndex
  resourceStats,      \* useState resourceStats
  isDirty,            \* useState isDirty
  hasError,           \* useState hasError
  status,             \* useState status
  autosaveTimer,      \* the timer autosaveTimer.current refers to is pending
  timeouts,           \* ticks left of every pending autosave timeout, oldest first
  elapsed,            \* ticks since the last cell mutation, AutosaveDelay + 1 for more
  effectSocket,       \* the socket captured by the cleanup of the token effect
  fetches,            \* outstanding list requests
  pending,            \* outstanding notebook requests
  store               \* the storage service's notebooks

vars ==
  <<token, stored, route, sockets, socket, reconnect, content, currentNotebook,
    activeCellIndex, executingCellIndex, resourceStats, isDirty, hasError,
    status, autosaveTimer, timeouts, elapsed, effectSocket, fetches, pending,
    store>>

\* The state as one record, so that a handler is an operator from the state
\* it reads to the state it leaves.  `touched` says that setContent stored a
\* new object (the autosave effect depends on the identity of content).
Cur ==
  [token |-> token, stored |-> stored, route |-> route, sockets |-> sockets,
   socket |-> socket, reconnect |-> reconnect, content |-> content,
   currentNotebook |-> currentNotebook, activeCellIndex |-> activeCellIndex,
   executingCellIndex |-> executingCellIndex, resourceStats |-> resourceStats,
   isDirty |-> isDirty, hasError |-> hasError, status |-> status,
   autosaveTimer |-> autosaveTimer, timeouts |-> timeouts, elapsed |-> elapsed,
   effectSocket |-> effectSocket,
   fetches |-> fetches, pending |-> pending, store |-> store,
   touched |-> FALSE]

\* ------------------------------------------------------------ WebSocket API
\* new WebSocket(url): the token it carries, whether the handlers created
\* with it closed over a loaded content, the frames sent and not yet read,
\* and the close event it fired (<<>> while none)
NewSocket(s) ==
  [readyState |-> "CONNECTING", token |-> s.token,
   hadContent |-> s.content # NoContent, outbox |-> <<>>, closed |-> <<>>]

\* WebSocket.close(): starts the closing handshake of a live socket
SocketClose(socks, i) ==
  IF i # 0 /\ socks[i].readyState \in {"CONNECTING", "OPEN"}
    THEN [socks EXCEPT ![i].readyState = "CLOSING"]
    ELSE socks

\* WebSocket.send(frame)
SocketSend(socks, i, frame) ==
  [socks EXCEPT ![i].outbox = Append(@, frame)]

IsOpen(s) == s.socket # 0 /\ s.sockets[s.socket].readyState = "OPEN"

Inc(n) == IF n < MaxFetch THEN n + 1 ELSE n

\* fetchNotebooks(), up to its await
fetchNotebooks(s) ==
  [s EXCEPT !.status = St("Carregando lista..."),
            !.fetches.notebooks = Inc(@)]

\* fetchFiles(), up to its await
fetchFiles(s) == [s EXCEPT !.fetches.files = Inc(@)]

\* ------------------------------------------------------------------ effects
\* the effect without its two socket.close() calls
TokenEffect_NoClose(s) ==
  LET c == [s EXCEPT !.effectSocket = s.socket]
  IN IF Truthy(c.token)
       THEN LET f == fetchFiles(fetchNotebooks([c EXCEPT !.resourceStats = NoStats]))
            IN [f EXCEPT !.sockets = Append(f.sockets, NewSocket(f)),
                         !.socket = Len(f.sockets) + 1]
       ELSE [c EXCEPT !.route = "/login"]

\* useEffect(..., [token, navigate]): the cleanup of the previous run, then
\* the body, with the state of the render that follows the token change
TokenEffect(s) ==
  LET c == [s EXCEPT !.sockets = SocketClose(@, s.effectSocket),
                     !.effectSocket = s.socket]
  IN IF Truthy(c.token)
       THEN LET f == fetchFiles(fetchNotebooks([c EXCEPT !.resourceStats = NoStats]))
                closedOld == SocketClose(f.sockets, f.socket)
            IN [f EXCEPT !.sockets = Append(closedOld, NewSocket(f)),
                         !.socket = Len(closedOld) + 1]
       ELSE [c EXCEPT !.route = "/login"]

\* if (autosaveTimer.current) clearTimeout(autosaveTimer.current): the timer
\* the ref names is the one armed last
ClearAutosave(s) ==
  IF s.autosaveTimer
    THEN [s EXCEPT !.timeouts = SubSeq(@, 1, Len(@) - 1), !.autosaveTimer = FALSE]
    ELSE s

\* autosaveTimer.current = setTimeout(() => saveNotebook(), 2000)
ArmAutosave(s) ==
  [s EXCEPT !.timeouts = Append(@, AutosaveDelay), !.autosaveTimer = TRUE]

\* the effect with neither clearTimeout before it arms a timer
AutosaveEffect_NoCancel(s) ==
  IF ~s.isDirty \/ s.currentNotebook = NoName \/ s.content = NoContent
    THEN ClearAutosave(s)
    ELSE ArmAutosave([s EXCEPT !.status = St("Alteracoes nao salvas..."),
                               !.hasError = FALSE])

\* useEffect(..., [content, isDirty, currentNotebook]): cleanup, then body
AutosaveEffect(s) ==
  IF ~s.isDirty \/ s.currentNotebook = NoName \/ s.content = NoContent
    THEN ClearAutosave(s)
    ELSE ArmAutosave([ClearAutosave(s) EXCEPT !.status = St("Alteracoes nao salvas..."),
                                              !.hasError = FALSE])

\* the render after a handler, and the effects whose dependencies changed
Render(h) ==
  \* h is bound to one value: the handler's result is computed once
  LET s == CHOOSE x \in {h} : TRUE
      t == IF s.token # token THEN TokenEffect(s) ELSE s
  IN IF s.touched \/ s.isDirty # isDirty \/ s.currentNotebook # currentNotebook
       THEN AutosaveEffect(t)
       ELSE t

\* the step that leaves the state s
Commit(s) ==
  \E r \in {Render(s)} :
     /\ Len(r.sockets) <= MaxSockets
     /\ token' = r.token
     /\ stored' = r.stored
     /\ route' = r.route
     /\ sockets' = r.sockets
     /\ socket' = r.socket
     /\ reconnect' = r.reconnect
     /\ content' = r.content
     /\ currentNotebook' = r.currentNotebook
     /\ activeCellIndex' = r.activeCellIndex
     /\ executingCellIndex' = r.executingCellIndex
     /\ resourceStats' = r.resourceStats
     /\ isDirty' = r.isDirty
     /\ hasError' = r.hasError
     /\ status' = r.status
     /\ autosaveTimer' = r.autosaveTimer
     /\ timeouts' = r.timeouts
     /\ elapsed' = r.elapsed
     /\ effectSocket' = r.effectSocket
     /\ fetches' = r.fetches
     /\ pending' = r.pending
     /\ store' = r.store

\* ------------------------------------------------------------ Document Model
HasContent(s) == s.content # NoContent
CellsOf(s) == s.content[1].cells
\* setContent(prev => ({...prev, cells: cs}))
SetCells(s, cs) == [s EXCEPT !.content = <<[cells |-> cs]>>, !.touched = TRUE]

\* Array.prototype.filter((cell, i) => i !== index), index counted from 0
RemoveAt(cs, index) ==
  [k \in 1..(Len(cs) - 1) |-> IF k - 1 < index THEN cs[k] ELSE cs[k + 1]]

\* splice(index, 0, cell): the cell ends at position index (counted from 0)
InsertAt(cs, index, cell) ==
  [k \in 1..(Len(cs) + 1) |->
     IF k - 1 < index THEN cs[k] ELSE IF k - 1 = index THEN cell ELSE cs[k - 1]]

\* clearAllOutputs(); closedOver is the `content` of the render that created
\* the function (truthy or not).  With a content that is null by now the
\* updater throws and the state keeps its value.
clearAllOutputs(s, closedOver) ==
  IF ~closedOver \/ ~HasContent(s) THEN s
  ELSE SetCells(s, [k \in 1..Len(CellsOf(s)) |->
         IF CellsOf(s)[k].cell_type = "code"
           THEN [CellsOf(s)[k] EXCEPT !.outputs = <<>>, !.log = <<>>]
           ELSE CellsOf(s)[k]])

handleCellFocus(s, index) == [s EXCEPT !.activeCellIndex = index]

\* the change that marks the Document dirty before it tests the content
handleCellChange_DirtyFirst(s, index, newSourceString) ==
  IF ~HasContent(s) THEN [s EXCEPT !.isDirty = TRUE]
  ELSE SetCells([s EXCEPT !.isDirty = TRUE],
         [k \in 1..Len(CellsOf(s)) |->
            IF k - 1 = index
              THEN [CellsOf(s)[k] EXCEPT !.source = SplitLines(newSourceString)]
              ELSE CellsOf(s)[k]])

handleCellChange(s, index, newSourceString) ==
  IF ~HasContent(s) THEN s
  ELSE SetCells([s EXCEPT !.isDirty = TRUE],
         [k \in 1..Len(CellsOf(s)) |->
            IF k - 1 = index
              THEN [CellsOf(s)[k] EXCEPT !.source = SplitLines(newSourceString)]
              ELSE CellsOf(s)[k]])

\* the deletion that keeps the first cell active when the first is deleted
handleDeleteCell_FirstStaysActive(s, index, confirmed) ==
  IF ~HasContent(s) THEN s
  ELSE IF Len(CellsOf(s)) = 1 /\ ~confirmed THEN s
  ELSE LET d == SetCells(s, RemoveAt(CellsOf(s), index))
           a == IF s.activeCellIndex = index
                  THEN (IF index > 0 THEN index - 1 ELSE 0)
                ELSE IF s.activeCellIndex > index
                  THEN s.activeCellIndex - 1
                ELSE s.activeCellIndex
       IN [d EXCEPT !.activeCellIndex = a, !.isDirty = TRUE]

\* the deletion that does not ask before it removes the last cell
handleDeleteCell_NoConfirm(s, index, confirmed) ==
  IF ~HasContent(s) THEN s
  ELSE LET d == SetCells(s, RemoveAt(CellsOf(s), index))
           a == IF s.activeCellIndex = index
                  THEN (IF index > 0 THEN index - 1 ELSE NoCell)
                ELSE IF s.activeCellIndex > index
                  THEN s.activeCellIndex - 1
                ELSE s.activeCellIndex
       IN [d EXCEPT !.activeCellIndex = a, !.isDirty = TRUE]

\* the deletion without the adjustment of activeCellIndex
handleDeleteCell_KeepActive(s, index, confirmed) ==
  IF ~HasContent(s) THEN s
  ELSE IF Len(CellsOf(s)) = 1 /\ ~confirmed THEN s
  ELSE [SetCells(s, RemoveAt(CellsOf(s), index)) EXCEPT !.isDirty = TRUE]

handleDeleteCell(s, index, confirmed) ==
  IF ~HasContent(s) THEN s
  ELSE IF Len(CellsOf(s)) = 1 /\ ~confirmed THEN s
  ELSE LET d == SetCells(s, RemoveAt(CellsOf(s), index))
           a == IF s.activeCellIndex = index
                  THEN (IF index > 0 THEN index - 1 ELSE NoCell)
                ELSE IF s.activeCellIndex > index
                  THEN s.activeCellIndex - 1
                ELSE s.activeCellIndex
       IN [d EXCEPT !.activeCellIndex = a, !.isDirty = TRUE]

\* the move that leaves activeCellIndex as it is
handleMoveCell_KeepActive(s, index, direction) ==
  IF ~HasContent(s) THEN s
  ELSE LET newIndex == IF direction = "up" THEN index - 1 ELSE index + 1
           cs == CellsOf(s)
       IN IF newIndex < 0 \/ newIndex >= Len(cs) THEN s
          ELSE [SetCells(s, InsertAt(RemoveAt(cs, index), newIndex, cs[index + 1]))
                  EXCEPT !.isDirty = TRUE]

\* the move that marks the Document dirty before it tests the bounds
handleMoveCell_DirtyFirst(s, index, direction) ==
  IF ~HasContent(s) THEN s
  ELSE LET newIndex == IF direction = "up" THEN index - 1 ELSE index + 1
           cs == CellsOf(s)
       IN IF newIndex < 0 \/ newIndex >= Len(cs) THEN [s EXCEPT !.isDirty = TRUE]
          ELSE [SetCells(s, InsertAt(RemoveAt(cs, index), newIndex, cs[index + 1]))
                  EXCEPT !.activeCellIndex = newIndex, !.isDirty = TRUE]

handleMoveCell(s, index, direction) ==
  IF ~HasContent(s) THEN s
  ELSE LET newIndex == IF direction = "up" THEN index - 1 ELSE index + 1
           cs == CellsOf(s)
       IN IF newIndex < 0 \/ newIndex >= Len(cs) THEN s
          ELSE [SetCells(s, InsertAt(RemoveAt(cs, index), newIndex, cs[index + 1]))
                  EXCEPT !.activeCellIndex = newIndex, !.isDirty = TRUE]

\* the insertion that always appends
handleAddCell_AtEnd(s, type) ==
  IF ~HasContent(s) THEN s
  ELSE LET newCell == IF type = "code" THEN EMPTY_CODE_CELL ELSE EMPTY_MARKDOWN_CELL
           cs == CellsOf(s)
           insertIndex == Len(cs)
       IN [SetCells(s, InsertAt(cs, insertIndex, newCell))
             EXCEPT !.activeCellIndex = insertIndex, !.isDirty = TRUE]

handleAddCell(s, type) ==
  IF ~HasContent(s) THEN s
  ELSE LET newCell == IF type = "code" THEN EMPTY_CODE_CELL ELSE EMPTY_MARKDOWN_CELL
           cs == CellsOf(s)
           insertIndex == IF s.activeCellIndex # NoCell
                            THEN s.activeCellIndex + 1 ELSE Len(cs)
       IN [SetCells(s, InsertAt(cs, insertIndex, newCell))
             EXCEPT !.activeCellIndex = insertIndex, !.isDirty = TRUE]

\* -------------------------------------------------------- Output Accumulator
\* cell.outputs && cell.outputs[0] ? cell.outputs[0] : {type:'stdout', content:''}
OldOutput(cell) ==
  IF cell.outputs # <<>> THEN cell.outputs[1] ELSE [type |-> "stdout", content |-> <<>>]

Event(kind, output) == [ev |-> kind, type |-> output.type, content |-> output.content]

\* the stream branch whose new Output is always of type stdout
StreamedCell_Stdout(cell, output) ==
  LET oldOutput == OldOutput(cell)
      newContent == IF oldOutput.type = "status" THEN output.content
                    ELSE oldOutput.content \o output.content
  IN [cell EXCEPT !.outputs = <<[type |-> "stdout", content |-> newContent]>>,
                  !.log = Append(@, Event("stream", output))]

\* the stream branch without the test of the status placeholder
StreamedCell_Append(cell, output) ==
  LET oldOutput == OldOutput(cell)
  IN [cell EXCEPT !.outputs = <<[type |-> oldOutput.type,
                                 content |-> oldOutput.content \o output.content]>>,
                  !.log = Append(@, Event("stream", output))]

\* one cell under setCellOutput
StreamedCell(cell, output) ==
  LET oldOutput == OldOutput(cell)
      newContent == IF oldOutput.type = "status" THEN output.content
                    ELSE oldOutput.content \o output.content
      newType == IF oldOutput.type = "status" THEN "stdout" ELSE oldOutput.type
  IN [cell EXCEPT !.outputs = <<[type |-> newType, content |-> newContent]>>,
                  !.log = Append(@, Event("stream", output))]

setCellOutput(s, cellIndex, output, isStream) ==
  IF ~HasContent(s) THEN s
  ELSE SetCells(s, [k \in 1..Len(CellsOf(s)) |->
         IF k - 1 = cellIndex
           THEN IF ~isStream
                  THEN [CellsOf(s)[k] EXCEPT !.outputs = <<output>>,
                                             !.log = <<Event("set", output)>>]
                  ELSE StreamedCell(CellsOf(s)[k], output)
           ELSE CellsOf(s)[k]])

\* the final message keeping the type of the old output
FinalCell_KeepType(cell, data) ==
  [cell EXCEPT !.outputs = <<[type |-> OldOutput(cell).type,
                              content |-> OldOutput(cell).content \o data.content]>>,
               !.log = Append(@, Event("final", data))]

\* one cell under the final stdout / stderr message
FinalCell(cell, data) ==
  [cell EXCEPT !.outputs = <<[type |-> data.type,
                              content |-> OldOutput(cell).content \o data.content]>>,
               !.log = Append(@, Event("final", data))]

\* ------------------------------------------------------ Execution Dispatcher
StatusOutput == [type |-> "status", content |-> Str_Executando]

\* the run whose not-connected branch does not switch the loader off
handleRunCell_NoReset(s, index) ==
  LET a == [s EXCEPT !.activeCellIndex = index, !.executingCellIndex = index]
  IN IF ~HasContent(s) \/ ~IsOpen(s)
       THEN [a EXCEPT !.status = St("Kernel nao conectado. Tente recarregar."),
                      !.hasError = TRUE]
     ELSE LET cell == CellsOf(s)[index + 1]
          IN IF cell.cell_type # "code" THEN a
             ELSE LET code == JoinLines(cell.source)
                      o == setCellOutput(a, index, StatusOutput, FALSE)
                  IN [o EXCEPT !.sockets = SocketSend(@, s.socket,
                                             [action |-> "execute", code |-> code]),
                               !.status = St("Executando codigo..."),
                               !.hasError = FALSE]

\* the run that sends the source lines joined without a separator
handleRunCell_Concat(s, index) ==
  LET a == [s EXCEPT !.activeCellIndex = index, !.executingCellIndex = index]
  IN IF ~HasContent(s) \/ ~IsOpen(s)
       THEN [a EXCEPT !.status = St("Kernel nao conectado. Tente recarregar."),
                      !.hasError = TRUE,
                      !.executingCellIndex = NoCell]
     ELSE LET cell == CellsOf(s)[index + 1]
          IN IF cell.cell_type # "code" THEN a
             ELSE LET code == Concat(cell.source)
                      o == setCellOutput(a, index, StatusOutput, FALSE)
                  IN [o EXCEPT !.sockets = SocketSend(@, s.socket,
                                             [action |-> "execute", code |-> code]),
                               !.status = St("Executando codigo..."),
                               !.hasError = FALSE]

handleRunCell(s, index) ==
  LET a == [s EXCEPT !.activeCellIndex = index, !.executingCellIndex = index]
  IN IF ~HasContent(s) \/ ~IsOpen(s)
       THEN [a EXCEPT !.status = St("Kernel nao conectado. Tente recarregar."),
                      !.hasError = TRUE,
                      !.executingCellIndex = NoCell]
     ELSE LET cell == CellsOf(s)[index + 1]
          IN IF cell.cell_type # "code" THEN a
             ELSE LET code == JoinLines(cell.source)
                      o == setCellOutput(a, index, StatusOutput, FALSE)
                  IN [o EXCEPT !.sockets = SocketSend(@, s.socket,
                                             [action |-> "execute", code |-> code]),
                               !.status = St("Executando codigo..."),
                               !.hasError = FALSE]

\* the stop that switches the loader off by itself
handleStopExecution_ClearsExecuting(s) ==
  IF ~IsOpen(s) THEN [s EXCEPT !.status = St("Nao conectado.")]
  ELSE [s EXCEPT !.sockets = SocketSend(@, s.socket,
                               [action |-> "stop_execution", code |-> <<>>]),
                 !.executingCellIndex = NoCell]

handleStopExecution(s) ==
  IF ~IsOpen(s) THEN [s EXCEPT !.status = St("Nao conectado.")]
  ELSE [s EXCEPT !.sockets = SocketSend(@, s.socket,
                               [action |-> "stop_execution", code |-> <<>>])]

handleRestartKernel(s, confirmed) ==
  IF ~IsOpen(s) THEN [s EXCEPT !.status = St("Nao conectado.")]
  ELSE IF confirmed
    THEN [s EXCEPT !.sockets = SocketSend(@, s.socket,
                                 [action |-> "restart_kernel", code |-> <<>>])]
    ELSE s

\* ------------------------------------------------------------ authentication
handleLoginSuccess(s, newToken) ==
  [s EXCEPT !.stored = newToken, !.token = newToken, !.route = "/"]

handleLogout(s) == [s EXCEPT !.stored = NullToken, !.token = NullToken]

\* --------------------------------------------------------- socket callbacks
onopen(s) == [s EXCEPT !.status = St("Conectado ao Kernel."), !.hasError = FALSE]

onerror(s) ==
  [s EXCEPT !.status = St("Erro de conexao com o Kernel."), !.hasError = TRUE]

\* onclose arming the reconnection after every closure but that of 1008
onclose_ReconnectAlways(s, i, event) ==
  LET c == [s EXCEPT !.executingCellIndex = NoCell, !.resourceStats = NoStats]
  IN IF event.code = 1008
       THEN handleLogout([c EXCEPT !.status = St("Sessao expirada. Faca login novamente.")])
     ELSE IF event.reason = "Kernel restarting"
       THEN [clearAllOutputs([c EXCEPT !.status = St("Kernel reiniciado. Reconectando...")],
                             s.sockets[i].hadContent)
               EXCEPT !.reconnect = @ \cup {i}]
     ELSE [c EXCEPT !.status = St("Desconectado do Kernel."), !.hasError = TRUE,
                    !.reconnect = @ \cup {i}]

\* onclose without the branch of the close code 1008
onclose_No1008(s, i, event) ==
  LET c == [s EXCEPT !.executingCellIndex = NoCell, !.resourceStats = NoStats]
  IN IF event.reason = "Kernel restarting"
       THEN [clearAllOutputs([c EXCEPT !.status = St("Kernel reiniciado. Reconectando...")],
                             s.sockets[i].hadContent)
               EXCEPT !.reconnect = @ \cup {i}]
     ELSE [c EXCEPT !.status = St("Desconectado do Kernel."), !.hasError = TRUE]

\* newSocket.onclose of the socket i, which closed over the state of the
\* render that created it
onclose(s, i, event) ==
  LET c == [s EXCEPT !.executingCellIndex = NoCell, !.resourceStats = NoStats]
  IN IF event.code = 1008
       THEN handleLogout([c EXCEPT !.status = St("Sessao expirada. Faca login novamente.")])
     ELSE IF event.reason = "Kernel restarting"
       THEN [clearAllOutputs([c EXCEPT !.status = St("Kernel reiniciado. Reconectando...")],
                             s.sockets[i].hadContent)
               EXCEPT !.reconnect = @ \cup {i}]
     ELSE [c EXCEPT !.status = St("Desconectado do Kernel."), !.hasError = TRUE]

\* the update of the stats that does not spread the previous object
StatsOf_Fresh(s) == [ram |-> <<>>, cpu |-> <<>>, disk |-> <<>>]

\* {...prev, ram: v, cpu: v} and {...prev, disk: v}; a missing field is <<>>
StatsOf(s) ==
  IF s.resourceStats = NoStats THEN [ram |-> <<>>, cpu |-> <<>>, disk |-> <<>>]
  ELSE s.resourceStats[1]

\* onmessage routing a stream frame to the cell that was run
onmessage_ToExecuting(s, data) ==
  CASE data.type = "stream" ->
         IF s.executingCellIndex # NoCell
           THEN setCellOutput(s, s.executingCellIndex, data, TRUE)
           ELSE s
    [] data.type \in {"stdout", "stderr"} ->
         LET m == IF s.activeCellIndex # NoCell /\ HasContent(s)
                    THEN SetCells(s, [k \in 1..Len(CellsOf(s)) |->
                           IF k - 1 = s.activeCellIndex
                             THEN FinalCell(CellsOf(s)[k], data)
                             ELSE CellsOf(s)[k]])
                    ELSE s
         IN [m EXCEPT !.status = St("Execucao concluida."),
                      !.executingCellIndex = NoCell]
    [] data.type = "filesystem_update" -> fetchFiles(s)
    [] data.type = "resource_stats" ->
         [s EXCEPT !.resourceStats =
            <<[StatsOf(s) EXCEPT !.ram = <<data.content>>, !.cpu = <<data.content>>]>>]
    [] data.type = "disk_stats" ->
         [s EXCEPT !.resourceStats = <<[StatsOf(s) EXCEPT !.disk = <<data.content>>]>>]
    [] OTHER -> [s EXCEPT !.executingCellIndex = NoCell]

\* onmessage whose default case also takes the focus from the active cell
onmessage_UnknownClearsActive(s, data) ==
  CASE data.type = "stream" ->
         IF s.activeCellIndex # NoCell
           THEN setCellOutput(s, s.activeCellIndex, data, TRUE)
           ELSE s
    [] data.type \in {"stdout", "stderr"} ->
         LET m == IF s.activeCellIndex # NoCell /\ HasContent(s)
                    THEN SetCells(s, [k \in 1..Len(CellsOf(s)) |->
                           IF k - 1 = s.activeCellIndex
                             THEN FinalCell(CellsOf(s)[k], data)
                             ELSE CellsOf(s)[k]])
                    ELSE s
         IN [m EXCEPT !.status = St("Execucao concluida."),
                      !.executingCellIndex = NoCell]
    [] data.type = "filesystem_update" -> fetchFiles(s)
    [] data.type = "resource_stats" ->
         [s EXCEPT !.resourceStats =
            <<[StatsOf(s) EXCEPT !.ram = <<data.content>>, !.cpu = <<data.content>>]>>]
    [] data.type = "disk_stats" ->
         [s EXCEPT !.resourceStats = <<[StatsOf(s) EXCEPT !.disk = <<data.content>>]>>]
    [] OTHER -> [s EXCEPT !.executingCellIndex = NoCell, !.activeCellIndex = NoCell]

\* newSocket.onmessage
onmessage(s, data) ==
  CASE data.type = "stream" ->
         IF s.activeCellIndex # NoCell
           THEN setCellOutput(s, s.activeCellIndex, data, TRUE)
           ELSE s
    [] data.type \in {"stdout", "stderr"} ->
         LET m == IF s.activeCellIndex # NoCell /\ HasContent(s)
                    THEN SetCells(s, [k \in 1..Len(CellsOf(s)) |->
                           IF k - 1 = s.activeCellIndex
                             THEN FinalCell(CellsOf(s)[k], data)
                             ELSE CellsOf(s)[k]])
                    ELSE s
         IN [m EXCEPT !.status = St("Execucao concluida."),
                      !.executingCellIndex = NoCell]
    [] data.type = "filesystem_update" -> fetchFiles(s)
    [] data.type = "resource_stats" ->
         [s EXCEPT !.resourceStats =
            <<[StatsOf(s) EXCEPT !.ram = <<data.content>>, !.cpu = <<data.content>>]>>]
    [] data.type = "disk_stats" ->
         [s EXCEPT !.resourceStats = <<[StatsOf(s) EXCEPT !.disk = <<data.content>>]>>]
    [] OTHER -> [s EXCEPT !.executingCellIndex = NoCell]

\* setTimeout(() => setToken(t => t + ' '), 1000), when it fires
reconnectTimeout(s, i) ==
  [s EXCEPT !.token = PlusSpace(@), !.reconnect = @ \ {i}]

\* ------------------------------------------------------------ storage calls
\* openNotebook(filename), up to its await
openNotebook(s, filename, confirmed) ==
  IF s.isDirty /\ ~confirmed THEN s
  ELSE [s EXCEPT !.status = StN("Abrindo", filename),
                 !.pending = @ \cup {[op |-> "open", name |-> filename, doc |-> NoContent]}]

\* openNotebook(filename), from the response on
openNotebookReply(s, req, ok) ==
  LET rest == [s EXCEPT !.pending = @ \ {req}]
  IN IF ok /\ s.store[req.name] # NoContent
       THEN [rest EXCEPT !.content = s.store[req.name],
                         !.touched = TRUE,
                         !.currentNotebook = req.name,
                         !.status = StN("aberto.", req.name),
                         !.hasError = FALSE,
                         !.isDirty = FALSE,
                         !.activeCellIndex = NoCell]
       ELSE [rest EXCEPT !.status = StN("Erro ao abrir", req.name), !.hasError = TRUE]

\* the answers to prompt('Digite o nome do novo notebook ...'): "" is a
\* cancelled or empty prompt
Prompts == {"", "n1.ipynb", "n2"}

\* filename, with '.ipynb' added if filename does not end with it
SafeFilename(filename) == IF filename = "n2" THEN "n2.ipynb" ELSE filename

\* newNotebook(), up to its first await; the request keeps the isDirty that
\* the closure of this render holds
newNotebook(s, confirmed, filename) ==
  IF s.isDirty /\ ~confirmed THEN s
  ELSE IF filename = "" THEN s
  ELSE [s EXCEPT !.status = St("Criando novo notebook..."),
                 !.pending = @ \cup {[op |-> "create", name |-> SafeFilename(filename),
                                      doc |-> <<EMPTY_NOTEBOOK_CONTENT>>,
                                      dirty |-> s.isDirty]}]

\* newNotebook(), from the response of the PUT to the await of fetchNotebooks
newNotebookCreated(s, req, ok) ==
  LET rest == [s EXCEPT !.pending = @ \ {req}]
  IN IF ok
       THEN [rest EXCEPT !.store[req.name] = req.doc,
                         !.status = St("Carregando lista..."),
                         !.pending = @ \cup {[req EXCEPT !.op = "created"]}]
       ELSE [rest EXCEPT !.status = StN("Erro ao criar", req.name), !.hasError = TRUE]

\* fetchNotebooks() from its response on, then openNotebook(safeFilename) of
\* the render in which newNotebook was called
newNotebookListed(s, req, ok, confirmed) ==
  LET rest == [s EXCEPT !.pending = @ \ {req},
                        !.status = IF ok THEN St("Lista carregada.")
                                   ELSE St("Erro ao carregar lista."),
                        !.hasError = ~ok]
  IN [openNotebook([rest EXCEPT !.isDirty = req.dirty], req.name, confirmed)
        EXCEPT !.isDirty = rest.isDirty]

\* the save that leaves the autosave timer pending
saveNotebook_NoClear(s) ==
  IF s.currentNotebook = NoName \/ ~HasContent(s) THEN s
  ELSE [s EXCEPT !.status = StN("Salvando", s.currentNotebook),
                 !.pending = @ \cup {[op |-> "save", name |-> s.currentNotebook,
                                      doc |-> s.content]}]

\* saveNotebook(), up to its await
saveNotebook(s) ==
  IF s.currentNotebook = NoName \/ ~HasContent(s) THEN s
  ELSE [ClearAutosave(s) EXCEPT
                 !.status = StN("Salvando", s.currentNotebook),
                 !.pending = @ \cup {[op |-> "save", name |-> s.currentNotebook,
                                      doc |-> s.content]}]

\* the save that marks the Document clean whatever the response is
saveNotebookReply_CleanOnError(s, req, ok) ==
  LET rest == [s EXCEPT !.pending = @ \ {req}, !.isDirty = FALSE]
  IN IF ok
       THEN [rest EXCEPT !.store[req.name] = req.doc,
                         !.status = StN("salvo com sucesso!", req.name),
                         !.hasError = FALSE]
       ELSE [rest EXCEPT !.status = StN("Erro ao salvar", req.name), !.hasError = TRUE]

\* saveNotebook(), from the response on; the service stores what it answers
saveNotebookReply(s, req, ok) ==
  LET rest == [s EXCEPT !.pending = @ \ {req}]
  IN IF ok
       THEN [rest EXCEPT !.store[req.name] = req.doc,
                         !.status = StN("salvo com sucesso!", req.name),
                         !.hasError = FALSE,
                         !.isDirty = FALSE]
       ELSE [rest EXCEPT !.status = StN("Erro ao salvar", req.name), !.hasError = TRUE]

\* fetchNotebooks(), from the response on
fetchNotebooksReply(s, ok) ==
  IF ok THEN [s EXCEPT !.fetches.notebooks = @ - 1,
                       !.status = St("Lista carregada."), !.hasError = FALSE]
  ELSE [s EXCEPT !.fetches.notebooks = @ - 1,
                 !.status = St("Erro ao carregar lista."), !.hasError = TRUE]

\* fetchFiles(), from the response on
fetchFilesReply(s, ok) ==
  IF ok THEN [s EXCEPT !.fetches.files = @ - 1]
  ELSE [s EXCEPT !.fetches.files = @ - 1,
                 !.status = St("Erro ao carregar arquivos."), !.hasError = TRUE]

\* handleDeleteNotebook(event, filename), up to its first await; the request
\* keeps the currentNotebook that the closure of this render holds
handleDeleteNotebook(s, confirmed, filename) ==
  IF ~confirmed THEN s
  ELSE [s EXCEPT !.status = StN("Excluindo", filename),
                 !.pending = @ \cup {[op |-> "delete", name |-> filename,
                                      current |-> s.currentNotebook]}]

\* handleDeleteNotebook, from the response of the DELETE to the await of
\* fetchNotebooks; the service has no file of that name to delete: an error
handleDeleteNotebookDeleted(s, req, ok) ==
  LET rest == [s EXCEPT !.pending = @ \ {req}]
  IN IF ok /\ s.store[req.name] # NoContent
       THEN [rest EXCEPT !.store[req.name] = NoContent,
                         !.status = St("Carregando lista..."),
                         !.pending = @ \cup {[req EXCEPT !.op = "deleted"]}]
       ELSE [rest EXCEPT !.status = StN("Erro ao excluir", req.name), !.hasError = TRUE]

\* fetchNotebooks() from its response on, then the test of currentNotebook
\* against filename
handleDeleteNotebookListed(s, req, ok) ==
  LET rest == [s EXCEPT !.pending = @ \ {req},
                        !.status = IF ok THEN St("Lista carregada.")
                                   ELSE St("Erro ao carregar lista."),
                        !.hasError = ~ok]
  IN IF req.current = req.name
       THEN [rest EXCEPT !.content = NoContent,
                         !.touched = TRUE,
                         !.currentNotebook = NoName,
                         !.activeCellIndex = NoCell]
       ELSE rest

\* the answers to prompt("Digite o novo nome para o notebook:"): "" is a
\* cancelled or empty prompt
RenamePrompts == {"", "n1.ipynb", "n3"}

\* newFilename, with '.ipynb' added if newFilename does not end with it
SafeNewFilename(newFilename) == IF newFilename = "n3" THEN "n3.ipynb" ELSE newFilename

\* handleRenameNotebook(), up to its first await
handleRenameNotebook(s, newFilename) ==
  IF s.currentNotebook = NoName THEN s
  ELSE IF newFilename = "" \/ newFilename = s.currentNotebook THEN s
  ELSE [s EXCEPT !.status = StN("Renomeando para", SafeNewFilename(newFilename)),
                 !.pending = @ \cup {[op |-> "rename", name |-> s.currentNotebook,
                                      to |-> SafeNewFilename(newFilename)]}]

\* handleRenameNotebook, from the response of the PATCH to the await of
\* fetchNotebooks; the service renames a file it holds to a name that is free
handleRenameNotebookRenamed(s, req, ok) ==
  LET rest == [s EXCEPT !.pending = @ \ {req}]
  IN IF ok /\ s.store[req.name] # NoContent /\ s.store[req.to] = NoContent
       THEN [rest EXCEPT !.store = [@ EXCEPT ![req.to] = s.store[req.name],
                                             ![req.name] = NoContent],
                         !.status = St("Carregando lista..."),
                         !.pending = @ \cup {[req EXCEPT !.op = "renamed"]}]
       ELSE [rest EXCEPT !.status = St("Erro ao renomear"), !.hasError = TRUE]

\* fetchNotebooks() from its response on, then setCurrentNotebook(safeNewFilename)
handleRenameNotebookListed(s, req, ok) ==
  [s EXCEPT !.pending = @ \ {req},
            !.status = IF ok THEN St("Lista carregada.")
                       ELSE St("Erro ao carregar lista."),
            !.hasError = ~ok,
            !.currentNotebook = req.to]

\* ---------------------------------------------------------------- initial
\* the state of the first render: token read from localStorage
Mounted(t) ==
  [token |-> t, stored |-> t, route |-> "/", sockets |-> <<>>, socket |-> 0,
   reconnect |-> {}, content |-> NoContent, currentNotebook |-> NoName,
   activeCellIndex |-> NoCell, executingCellIndex |-> NoCell,
   resourceStats |-> NoStats, isDirty |-> FALSE, hasError |-> FALSE,
   status |-> St("Pronto."), autosaveTimer |-> FALSE, timeouts |-> <<>>,
   elapsed |-> AutosaveDelay + 1, effectSocket |-> 0,
   fetches |-> [notebooks |-> 0, files |-> 0], pending |-> {},
   store |-> InitialStore, touched |-> FALSE]

\* the state after the effects of the first render
InitWith(t) ==
  LET r == TokenEffect(Mounted(t))
  IN /\ token = r.token /\ stored = r.stored /\ route = r.route
     /\ sockets = r.sockets /\ socket = r.socket /\ reconnect = r.reconnect
     /\ content = r.content /\ currentNotebook = r.currentNotebook
     /\ activeCellIndex = r.activeCellIndex
     /\ executingCellIndex = r.executingCellIndex
     /\ resourceStats = r.resourceStats /\ isDirty = r.isDirty
     /\ hasError = r.hasError /\ status = r.status
     /\ autosaveTimer = r.autosaveTimer /\ effectSocket = r.effectSocket
     /\ timeouts = r.timeouts /\ elapsed = r.elapsed
     /\ fetches = r.fetches /\ pending = r.pending /\ store = r.store

Init == \E t \in {NullToken, <<"a">>} : InitWith(t)

\* ------------------------------------------------------------------ actions
\* the protected route renders the notebook only with a token
UiVisible == Truthy(token) /\ route = "/"
CellIndexes == IF content = NoContent THEN {} ELSE 0..(Len(content[1].cells) - 1)

\* the cells that render a RunButton
RunButtons == {index \in CellIndexes : content[1].cells[index + 1].cell_type = "code"}

RECURSIVE Events(_)
\* the output events the cells record
Events(cs) == IF cs = <<>> THEN 0 ELSE Len(Head(cs).log) + Events(Tail(cs))

\* there is room to record the event of one more frame
OutputRoom == content # NoContent => Events(content[1].cells) < MaxEvents

Login(t) ==
  /\ route = "/login"
  /\ Commit(handleLoginSuccess(Cur, t))

Logout ==
  /\ UiVisible
  /\ Commit(handleLogout(Cur))

WsOpen(i) ==
  /\ sockets[i].readyState = "CONNECTING"
  /\ Commit(onopen([Cur EXCEPT !.sockets[i].readyState = "OPEN"]))

\* the close events a socket in this state can fire
ClosesOf(sock) ==
  IF sock.readyState = "OPEN" THEN CloseEvents \ {[code |-> 1005, reason |-> ""]}
  ELSE IF sock.readyState = "CONNECTING" THEN {[code |-> 1006, reason |-> ""]}
  ELSE IF sock.readyState = "CLOSING"
    THEN {[code |-> 1005, reason |-> ""], [code |-> 1006, reason |-> ""]}
  ELSE {}

WsClose(i, event) ==
  /\ event \in ClosesOf(sockets[i])
  /\ LET c == [Cur EXCEPT !.sockets[i].readyState = "CLOSED",
                          !.sockets[i].outbox = <<>>,
                          !.sockets[i].closed = <<event>>]
     IN Commit(onclose(IF event.code = 1006 THEN onerror(c) ELSE c, i, event))

WsMessage(i, data) ==
  /\ sockets[i].readyState = "OPEN"
  /\ data.type \in {"stream", "stdout", "stderr"} => OutputRoom
  /\ Commit(onmessage(Cur, data))

\* the server reads the next frame of a connection
ServerTake(i) ==
  /\ sockets[i].readyState \in {"OPEN", "CLOSING"}
  /\ sockets[i].outbox # <<>>
  /\ Commit([Cur EXCEPT !.sockets[i].outbox = Tail(@)])

ReconnectTimer(i) ==
  /\ i \in reconnect
  /\ Commit(reconnectTimeout(Cur, i))

\* a handler that stored a new Document is a cell mutation: the time since
\* the last one starts again
Mutation(s) == IF s.touched THEN [s EXCEPT !.elapsed = 0] ELSE s

CellFocus(index) ==
  /\ UiVisible
  /\ index \in CellIndexes
  /\ Commit(handleCellFocus(Cur, index))

CellChange(index, text) ==
  /\ UiVisible
  /\ index \in CellIndexes
  /\ Commit(Mutation(handleCellChange(Cur, index, text)))

DeleteCell(index, confirmed) ==
  /\ UiVisible
  /\ index \in CellIndexes
  /\ Commit(Mutation(handleDeleteCell(Cur, index, confirmed)))

MoveCell(index, direction) ==
  /\ UiVisible
  /\ index \in CellIndexes
  /\ Commit(Mutation(handleMoveCell(Cur, index, direction)))

AddCell(type) ==
  /\ UiVisible
  /\ currentNotebook # NoName
  /\ content # NoContent => Len(content[1].cells) < MaxCells
  /\ Commit(Mutation(handleAddCell(Cur, type)))

RunCell(index) ==
  /\ UiVisible
  /\ index \in CellIndexes
  /\ OutputRoom \/ content[1].cells[index + 1].log # <<>>
  /\ socket # 0 => Len(sockets[socket].outbox) < MaxOutbox
  /\ Commit(handleRunCell(Cur, index))

StopExecution ==
  /\ socket # 0 => Len(sockets[socket].outbox) < MaxOutbox
  /\ Commit(handleStopExecution(Cur))

RestartKernel(confirmed) ==
  /\ UiVisible
  /\ socket # 0 => Len(sockets[socket].outbox) < MaxOutbox
  /\ Commit(handleRestartKernel(Cur, confirmed))

OpenNotebook(filename, confirmed) ==
  /\ UiVisible
  /\ Cardinality(pending) < MaxPending
  /\ Commit(openNotebook(Cur, filename, confirmed))

OpenNotebookReply(req, ok) ==
  /\ req \in pending
  /\ req.op = "open"
  /\ Commit(openNotebookReply(Cur, req, ok))

NewNotebook(confirmed, filename) ==
  /\ UiVisible
  /\ Cardinality(pending) < MaxPending
  /\ Commit(newNotebook(Cur, confirmed, filename))

NewNotebookCreated(req, ok) ==
  /\ req \in pending
  /\ req.op = "create"
  /\ Commit(newNotebookCreated(Cur, req, ok))

NewNotebookListed(req, ok, confirmed) ==
  /\ req \in pending
  /\ req.op = "created"
  /\ Commit(newNotebookListed(Cur, req, ok, confirmed))

\* the "Salvar Agora" button: rendered with a notebook open, disabled
\* while the Document is not dirty
SaveNow ==
  /\ UiVisible
  /\ currentNotebook # NoName
  /\ isDirty
  /\ Cardinality(pending) < MaxPending
  /\ Commit(saveNotebook(Cur))

\* the timeout k is no longer pending: it fired
Fired(s, k) ==
  [s EXCEPT !.timeouts = SubSeq(@, 1, k - 1) \o SubSeq(@, k + 1, Len(@)),
            !.autosaveTimer = @ /\ k # Len(s.timeouts)]

\* an autosave timeout expires: () => saveNotebook()
AutosaveTimeout ==
  /\ Cardinality(pending) < MaxPending
  /\ \E k \in 1..Len(timeouts) :
       /\ timeouts[k] = 0
       /\ Commit(saveNotebook(Fired(Cur, k)))

\* 1000 ms pass; an expired timeout runs before more time passes
Tick ==
  /\ \A k \in 1..Len(timeouts) : timeouts[k] > 0
  /\ timeouts # <<>> \/ elapsed <= AutosaveDelay
  /\ timeouts' = [k \in 1..Len(timeouts) |-> timeouts[k] - 1]
  /\ elapsed' = IF elapsed <= AutosaveDelay THEN elapsed + 1 ELSE elapsed
  /\ UNCHANGED <<token, stored, route, sockets, socket, reconnect, content,
                 currentNotebook, activeCellIndex, executingCellIndex,
                 resourceStats, isDirty, hasError, status, autosaveTimer,
                 effectSocket, fetches, pending, store>>

SaveNotebookReply(req, ok) ==
  /\ req \in pending
  /\ req.op = "save"
  /\ Commit(saveNotebookReply(Cur, req, ok))

FetchNotebooksReply(ok) ==
  /\ fetches.notebooks > 0
  /\ Commit(fetchNotebooksReply(Cur, ok))

FetchFilesReply(ok) ==
  /\ fetches.files > 0
  /\ Commit(fetchFilesReply(Cur, ok))

\* the delete button of a notebook in the sidebar, and the answer to confirm
DeleteNotebook(filename, confirmed) ==
  /\ UiVisible
  /\ Cardinality(pending) < MaxPending
  /\ Commit(handleDeleteNotebook(Cur, confirmed, filename))

DeleteNotebookDeleted(req, ok) ==
  /\ req \in pending
  /\ req.op = "delete"
  /\ Commit(handleDeleteNotebookDeleted(Cur, req, ok))

DeleteNotebookListed(req, ok) ==
  /\ req \in pending
  /\ req.op = "deleted"
  /\ Commit(handleDeleteNotebookListed(Cur, req, ok))

\* the renames that have not finished
Renames == {req \in pending : req.op \in {"rename", "renamed"}}

\* a click on the title of the open notebook, and the answer to prompt
RenameNotebook(newFilename) ==
  /\ UiVisible
  /\ currentNotebook # NoName
  /\ Cardinality(Renames) < MaxPending
  /\ Commit(handleRenameNotebook(Cur, newFilename))

RenameNotebookRenamed(req, ok) ==
  /\ req \in pending
  /\ req.op = "rename"
  /\ Commit(handleRenameNotebookRenamed(Cur, req, ok))

RenameNotebookListed(req, ok) ==
  /\ req \in pending
  /\ req.op = "renamed"
  /\ Commit(handleRenameNotebookListed(Cur, req, ok))

SocketIds == 1..Len(sockets)

Connection ==
  \/ \E t \in Tokens : Login(t)
  \/ Logout
  \/ \E i \in SocketIds : WsOpen(i)
  \/ \E i \in SocketIds : \E event \in CloseEvents : WsClose(i, event)
  \/ \E i \in SocketIds : ReconnectTimer(i)

Execution ==
  \/ \E index \in RunButtons : RunCell(index)
  \/ StopExecution
  \/ \E confirmed \in BOOLEAN : RestartKernel(confirmed)
  \/ \E i \in SocketIds : \E data \in Frames : WsMessage(i, data)
  \/ \E i \in SocketIds : ServerTake(i)

Editing ==
  \/ \E index \in CellIndexes : CellFocus(index)
  \/ \E index \in CellIndexes : \E text \in Texts : CellChange(index, text)
  \/ \E index \in CellIndexes : \E confirmed \in BOOLEAN : DeleteCell(index, confirmed)
  \/ \E index \in CellIndexes : \E direction \in {"up", "down"} : MoveCell(index, direction)
  \/ \E type \in {"code", "markdown"} : AddCell(type)

Storage ==
  \/ \E filename \in Names : \E confirmed \in BOOLEAN : OpenNotebook(filename, confirmed)
  \/ \E req \in pending : \E ok \in BOOLEAN : OpenNotebookReply(req, ok)
  \/ SaveNow
  \/ AutosaveTimeout
  \/ \E req \in pending : \E ok \in BOOLEAN : SaveNotebookReply(req, ok)
  \/ \E ok \in BOOLEAN : FetchNotebooksReply(ok)
  \/ \E ok \in BOOLEAN : FetchFilesReply(ok)
  \/ Tick
  \/ \E confirmed \in BOOLEAN : \E filename \in Prompts : NewNotebook(confirmed, filename)
  \/ \E req \in pending : \E ok \in BOOLEAN : NewNotebookCreated(req, ok)
  \/ \E req \in pending : \E ok, confirmed \in BOOLEAN :
       NewNotebookListed(req, ok, confirmed)
  \/ \E filename \in Names : \E confirmed \in BOOLEAN : DeleteNotebook(filename, confirmed)
  \/ \E req \in pending : \E ok \in BOOLEAN : DeleteNotebookDeleted(req, ok)
  \/ \E req \in pending : \E ok \in BOOLEAN : DeleteNotebookListed(req, ok)
  \/ \E newFilename \in RenamePrompts : RenameNotebook(newFilename)
  \/ \E req \in pending : \E ok \in BOOLEAN : RenameNotebookRenamed(req, ok)
  \/ \E req \in pending : \E ok \in BOOLEAN : RenameNotebookListed(req, ok)

Next == Connection \/ Execution \/ Editing \/ Storage

Spec == Init /\ [][Next]_vars

\* ------------------------------------------------ the Document Model alone
\* the cell operations on the notebooks a logged-in user opens
NextDoc ==
  \/ Login(<<"a">>)
  \/ \E filename \in Names : \E confirmed \in BOOLEAN : OpenNotebook(filename, confirmed)
  \/ \E req \in pending : \E ok \in BOOLEAN : OpenNotebookReply(req, ok)
  \/ \E index \in CellIndexes : CellFocus(index)
  \/ \E index \in CellIndexes : CellChange(index, <<"x", "\n", "y">>)
  \/ \E index \in CellIndexes : \E confirmed \in BOOLEAN : DeleteCell(index, confirmed)
  \/ \E index \in CellIndexes : \E direction \in {"up", "down"} : MoveCell(index, direction)
  \/ \E type \in {"code", "markdown"} : AddCell(type)

SpecDoc == Init /\ [][NextDoc]_vars

\* --------------------------------------- one connection and its executions
StreamFrames == [type : {"stream"}, content : {Str_hi, <<"E">>}]
FinalFrames ==
  {[type |-> "stdout", content |-> <<>>], [type |-> "stderr", content |-> <<"E">>]}

NextExec ==
  \/ Login(<<"a">>)
  \/ \E i \in SocketIds : WsOpen(i)
  \/ OpenNotebook("n1.ipynb", TRUE)
  \/ \E req \in pending : OpenNotebookReply(req, TRUE)
  \/ \E index \in RunButtons : RunCell(index)
  \/ \E i \in SocketIds : \E data \in StreamFrames \cup FinalFrames : WsMessage(i, data)
  \/ \E i \in SocketIds : WsMessage(i, [type |-> "ping", content |-> 0])
  \/ \E i \in SocketIds : WsClose(i, [code |-> 1000, reason |-> ""])
  \/ CellFocus(2)

SpecExec == Init /\ [][NextExec]_vars

\* ------------------------------------------- the life of the connections
NextSession ==
  \/ Login(<<"a">>)
  \/ Logout
  \/ \E i \in SocketIds : WsOpen(i)
  \/ \E i \in SocketIds : \E event \in CloseEvents : WsClose(i, event)
  \/ \E i \in SocketIds : ReconnectTimer(i)
  \/ OpenNotebook("n1.ipynb", TRUE)
  \/ \E req \in pending : OpenNotebookReply(req, TRUE)
  \/ RunCell(0)
  \/ \E i \in SocketIds : WsMessage(i, [type |-> "resource_stats", content |-> 1])

SpecSession == Init /\ [][NextSession]_vars

\* ------------------------------------- output frames and the active cell
\* one run, the user focusing any cell while frames arrive
NextFocus ==
  \/ Login(<<"a">>)
  \/ \E i \in SocketIds : WsOpen(i)
  \/ OpenNotebook("n1.ipynb", TRUE)
  \/ \E req \in pending : OpenNotebookReply(req, TRUE)
  \/ RunCell(0)
  \/ \E index \in CellIndexes : CellFocus(index)
  \/ \E i \in SocketIds : WsMessage(i, [type |-> "stream", content |-> Str_hi])
  \/ \E i \in SocketIds : WsMessage(i, [type |-> "stderr", content |-> <<"E">>])

SpecFocus == Init /\ [][NextFocus]_vars

\* ------------------------------------- opening and creating notebooks
NextOpen ==
  \/ Login(<<"a">>)
  \/ \E filename \in Names : \E confirmed \in BOOLEAN : OpenNotebook(filename, confirmed)
  \/ \E req \in pending : OpenNotebookReply(req, TRUE)
  \/ CellFocus(0)
  \/ CellChange(0, <<"x">>)
  \/ \E confirmed \in BOOLEAN : \E filename \in Prompts : NewNotebook(confirmed, filename)
  \/ \E req \in pending : \E ok \in BOOLEAN : NewNotebookCreated(req, ok)
  \/ \E req \in pending : \E ok, confirmed \in BOOLEAN :
       NewNotebookListed(req, ok, confirmed)

SpecOpen == Init /\ [][NextOpen]_vars

\* -------------------------------------------- the Autosave Scheduler alone
\* one notebook edited, saved by the timer or by hand, with time passing
NextSave ==
  \/ Login(<<"a">>)
  \/ \E confirmed \in BOOLEAN : OpenNotebook("n2.ipynb", confirmed)
  \/ \E req \in pending : OpenNotebookReply(req, TRUE)
  \/ \E text \in Texts : CellChange(0, text)
  \/ AddCell("code")
  \/ Tick
  \/ AutosaveTimeout
  \/ SaveNow
  \/ \E req \in pending : \E ok \in BOOLEAN : SaveNotebookReply(req, ok)

SpecSave == Init /\ [][NextSave]_vars

\* ------------------------------------------- the requests to the kernel
\* one connection, a run, and the stop and restart requests sent on it
NextControl ==
  \/ Login(<<"a">>)
  \/ \E i \in SocketIds : WsOpen(i)
  \/ \E i \in SocketIds : WsClose(i, [code |-> 1000, reason |-> ""])
  \/ OpenNotebook("n1.ipynb", TRUE)
  \/ \E req \in pending : OpenNotebookReply(req, TRUE)
  \/ RunCell(0)
  \/ CellFocus(1)
  \/ StopExecution
  \/ \E confirmed \in BOOLEAN : RestartKernel(confirmed)
  \/ \E i \in SocketIds : ServerTake(i)

SpecControl == Init /\ [][NextControl]_vars

\* --------------------------------- the frames that are not output frames
SideFrames ==
  [type : {"resource_stats", "disk_stats"}, content : StatValues]
  \cup {[type |-> "filesystem_update", content |-> 0]}

\* the frames of a type that onmessage has no case for
UnknownFrames == {[type |-> "ping", content |-> 0]}

\* an edited notebook, a run, and the frames the server sends beside output
NextSide ==
  \/ Login(<<"a">>)
  \/ \E i \in SocketIds : WsOpen(i)
  \/ OpenNotebook("n1.ipynb", TRUE)
  \/ \E req \in pending : OpenNotebookReply(req, TRUE)
  \/ CellChange(0, <<"x">>)
  \/ RunCell(0)
  \/ \E i \in SocketIds : \E data \in SideFrames \cup UnknownFrames : WsMessage(i, data)
  \/ \E ok \in BOOLEAN : FetchFilesReply(ok)

SpecSide == Init /\ [][NextSide]_vars

\* ------------------------------------------- editing a cell and running it
\* the texts typed into a cell: empty, one newline, a last line that is
\* empty, two lines
SourceTexts == {<<>>, <<"\n">>, <<"x", "\n">>, <<"x", "\n", "y">>}

NextRun ==
  \/ Login(<<"a">>)
  \/ \E i \in SocketIds : WsOpen(i)
  \/ OpenNotebook("n1.ipynb", TRUE)
  \/ \E req \in pending : OpenNotebookReply(req, TRUE)
  \/ \E text \in SourceTexts : CellChange(0, text)
  \/ RunCell(0)
  \/ \E i \in SocketIds : ServerTake(i)

SpecRun == Init /\ [][NextRun]_vars

\* ------------------------------------- the cell sequence of one notebook
\* cells inserted, deleted and moved, the first cell marked by an edit
NextCells ==
  \/ Login(<<"a">>)
  \/ OpenNotebook("n1.ipynb", TRUE)
  \/ \E req \in pending : OpenNotebookReply(req, TRUE)
  \/ \E index \in CellIndexes : CellFocus(index)
  \/ CellChange(0, <<"x">>)
  \/ \E index \in CellIndexes : \E confirmed \in BOOLEAN : DeleteCell(index, confirmed)
  \/ \E index \in CellIndexes : \E direction \in {"up", "down"} : MoveCell(index, direction)
  \/ \E type \in {"code", "markdown"} : AddCell(type)

SpecCells == Init /\ [][NextCells]_vars

\* ---------------------------------------------- the sources of the cells
\* any cell edited while any cell is active, the first cell showing output
NextEdit ==
  \/ Login(<<"a">>)
  \/ \E i \in SocketIds : WsOpen(i)
  \/ OpenNotebook("n1.ipynb", TRUE)
  \/ \E req \in pending : OpenNotebookReply(req, TRUE)
  \/ \E index \in CellIndexes : CellFocus(index)
  \/ \E index \in CellIndexes : \E text \in Texts : CellChange(index, text)
  \/ RunCell(0)

SpecEdit == Init /\ [][NextEdit]_vars

\* --------------------------- the cell sequence changed during an execution
NextStruct ==
  \/ Login(<<"a">>)
  \/ \E i \in SocketIds : WsOpen(i)
  \/ OpenNotebook("n1.ipynb", TRUE)
  \/ \E req \in pending : OpenNotebookReply(req, TRUE)
  \/ RunCell(0)
  \/ \E index \in CellIndexes : DeleteCell(index, TRUE)
  \/ \E index \in CellIndexes : \E direction \in {"up", "down"} : MoveCell(index, direction)
  \/ AddCell("markdown")
  \/ \E i \in SocketIds : WsMessage(i, [type |-> "stdout", content |-> <<>>])

SpecStruct == Init /\ [][NextStruct]_vars

\* ------------------------------------- handleRunCell called for any cell
\* onRunCell(index) for every index of the Document, the kind of the cell
\* left to the test in the handler
NextAnyRun ==
  \/ Login(<<"a">>)
  \/ \E i \in SocketIds : WsOpen(i)
  \/ OpenNotebook("n1.ipynb", TRUE)
  \/ \E req \in pending : OpenNotebookReply(req, TRUE)
  \/ \E index \in CellIndexes : RunCell(index)
  \/ \E i \in SocketIds : WsMessage(i, [type |-> "stdout", content |-> <<>>])
  \/ \E i \in SocketIds : WsClose(i, [code |-> 1000, reason |-> ""])
  \/ \E i \in SocketIds : ServerTake(i)

SpecAnyRun == Init /\ [][NextAnyRun]_vars

\* ------------------------- frames arriving while an autosave is pending
\* an edited notebook whose autosave timer runs while the server sends
\* output and statistics
NextQuiet ==
  \/ Login(<<"a">>)
  \/ \E i \in SocketIds : WsOpen(i)
  \/ OpenNotebook("n2.ipynb", TRUE)
  \/ \E req \in pending : OpenNotebookReply(req, TRUE)
  \/ CellChange(0, <<"x">>)
  \/ CellFocus(0)
  \/ Tick
  \/ AutosaveTimeout
  \/ \E req \in pending : SaveNotebookReply(req, TRUE)
  \/ \E i \in SocketIds : WsMessage(i, [type |-> "stream", content |-> Str_hi])
  \/ \E i \in SocketIds : WsMessage(i, [type |-> "stdout", content |-> <<>>])
  \/ \E i \in SocketIds : WsMessage(i, [type |-> "resource_stats", content |-> 1])

SpecQuiet == Init /\ [][NextQuiet]_vars

\* ------------------------------------------------- deleting a notebook
NextDelete ==
  \/ Login(<<"a">>)
  \/ \E filename \in Names : OpenNotebook(filename, TRUE)
  \/ \E req \in pending : OpenNotebookReply(req, TRUE)
  \/ CellChange(0, <<"x">>)
  \/ \E filename \in Names : \E confirmed \in BOOLEAN : DeleteNotebook(filename, confirmed)
  \/ \E req \in pending : \E ok \in BOOLEAN : DeleteNotebookDeleted(req, ok)
  \/ \E req \in pending : DeleteNotebookListed(req, TRUE)

SpecDelete == Init /\ [][NextDelete]_vars

\* ------------------------------------------------- renaming a notebook
\* no cell is edited: the Document is what was loaded
NextRename ==
  \/ Login(<<"a">>)
  \/ \E filename \in Names : OpenNotebook(filename, TRUE)
  \/ \E req \in pending : OpenNotebookReply(req, TRUE)
  \/ \E newFilename \in RenamePrompts : RenameNotebook(newFilename)
  \/ \E req \in pending : \E ok \in BOOLEAN : RenameNotebookRenamed(req, ok)
  \/ \E req \in pending : RenameNotebookListed(req, TRUE)

SpecRename == Init /\ [][NextRename]_vars

\* ===================================================================== claims
CodeCellsEmpty(c) ==
  \A k \in 1..Len(c[1].cells) :
    c[1].cells[k].cell_type = "code" => c[1].cells[k].outputs = <<>>

OutputsOf(c) ==
  IF c = NoContent THEN <<>> ELSE [k \in 1..Len(c[1].cells) |-> c[1].cells[k].outputs]

\* the history of a cell is the placeholder followed by n stream frames
PlaceholderThenStreams(l, n) ==
  /\ Len(l) = n + 1
  /\ l[1] = Event("set", StatusOutput)
  /\ \A m \in 2..Len(l) : l[m].ev = "stream"

\* the contents of the frames of a history, the placeholder left out
Chunked(l) == Concat([m \in 1..(Len(l) - 1) |-> l[m + 1].content])

\* executingCellIndex denotes a code cell that a run gave the placeholder
Running ==
  /\ executingCellIndex \in CellIndexes
  /\ content[1].cells[executingCellIndex + 1].cell_type = "code"
  /\ content[1].cells[executingCellIndex + 1].log # <<>>
  /\ content[1].cells[executingCellIndex + 1].log[1] = Event("set", StatusOutput)

TerminalOrClose ==
  \/ \E i \in SocketIds : \E data \in Frames :
       data.type \in {"stdout", "stderr"} /\ WsMessage(i, data)
  \/ \E i \in SocketIds : \E event \in CloseEvents : WsClose(i, event)

\* C1: once a run has set executingCellIndex it keeps its value in every
\* step, except that a step which processes a terminal stdout/stderr frame
\* or a close event makes it none; no other step changes or clears it.
C1_ExecutingUntilTerminalOrClose ==
  [][(Running /\ executingCellIndex' # executingCellIndex)
       => (executingCellIndex' = NoCell /\ TerminalOrClose)]_vars

\* C2: a run invoked while executingCellIndex is not none sends no frame and
\* leaves executingCellIndex and every cell's Output unchanged.
C2_RunWhileExecutingIsRefused ==
  [][\A j \in CellIndexes :
       (executingCellIndex # NoCell /\ RunCell(j))
         => /\ sockets' = sockets
            /\ executingCellIndex' = executingCellIndex
            /\ OutputsOf(content') = OutputsOf(content)]_vars

\* C3: a cell that received the status placeholder and then one or more
\* stream frames has an Output of kind stdout whose content is the
\* concatenation of the frames' contents in arrival order, without the
\* placeholder text.
C3_StreamsConcatenate ==
  content # NoContent =>
    \A k \in 1..Len(content[1].cells) :
      LET cell == content[1].cells[k]
      IN (\E n \in 1..MaxEvents : PlaceholderThenStreams(cell.log, n))
           => /\ cell.outputs = <<[type |-> "stdout", content |-> Chunked(cell.log)]>>
              /\ ~Contains(cell.outputs[1].content, Str_Executando)

\* a cell received the placeholder and two stream frames of different content
C3_Witness ==
  /\ content # NoContent
  /\ \E k \in 1..Len(content[1].cells) :
       /\ PlaceholderThenStreams(content[1].cells[k].log, 2)
       /\ content[1].cells[k].log[2].content # content[1].cells[k].log[3].content
       /\ content[1].cells[k].outputs[1].content # <<>>

\* C4: a cell that received the status placeholder and then directly a
\* terminal frame with content t has an Output whose content is exactly t,
\* the placeholder text not being part of it.
C4_TerminalReplacesPlaceholder ==
  content # NoContent =>
    \A k \in 1..Len(content[1].cells) :
      LET cell == content[1].cells[k]
      IN (/\ Len(cell.log) = 2
          /\ cell.log[1] = Event("set", StatusOutput)
          /\ cell.log[2].ev = "final")
           => /\ cell.outputs[1].content = cell.log[2].content
              /\ ~Contains(cell.outputs[1].content, Str_Executando)

\* C5: when a terminal frame of kind k and content t is processed and the
\* active cell received the placeholder and then stream frames c1..cn
\* (n >= 1), that cell's Output becomes {kind: k, content: c1 + ... + cn + t}
\* and executingCellIndex becomes none.
C5_TerminalAfterStreams ==
  [][\A i \in SocketIds : \A data \in FinalFrames :
       (/\ activeCellIndex \in CellIndexes
        /\ \E n \in 1..MaxEvents :
             PlaceholderThenStreams(content[1].cells[activeCellIndex + 1].log, n)
        /\ WsMessage(i, data))
         => /\ content'[1].cells[activeCellIndex + 1].outputs =
                 <<[type |-> data.type,
                    content |-> Chunked(content[1].cells[activeCellIndex + 1].log)
                                  \o data.content]>>
            /\ executingCellIndex' = NoCell]_vars

\* the scenario of the spec: run, stream "hi\n", terminal stdout ""
C5_Witness ==
  /\ content # NoContent
  /\ executingCellIndex = NoCell
  /\ \E k \in 1..Len(content[1].cells) :
       /\ content[1].cells[k].log =
            <<Event("set", StatusOutput),
              Event("stream", [type |-> "stream", content |-> Str_hi]),
              Event("final", [type |-> "stdout", content |-> <<>>])>>
       /\ content[1].cells[k].outputs = <<[type |-> "stdout", content |-> Str_hi]>>

\* C6: a step in which a connection closes with reason "Kernel restarting"
\* (and not with code 1008) while a Document is loaded leaves every code
\* cell's outputs empty and executingCellIndex and resourceStats none.
C6_RestartClearsOutputs ==
  [][\A i \in SocketIds : \A event \in CloseEvents :
       (/\ event.reason = "Kernel restarting"
        /\ event.code # 1008
        /\ content # NoContent
        /\ WsClose(i, event))
         => /\ CodeCellsEmpty(content')
            /\ executingCellIndex' = NoCell
            /\ resourceStats' = NoStats]_vars

\* C7: the reconnection that a "Kernel restarting" closure of the socket i
\* scheduled creates one connection, in state CONNECTING, which carries the
\* credential value that the closed connection carried, and leaves the
\* stored credential as it is.
C7_ReconnectSameCredential ==
  [][\A i \in SocketIds :
       ReconnectTimer(i)
         => /\ Len(sockets') = Len(sockets) + 1
            /\ sockets'[Len(sockets')].readyState = "CONNECTING"
            /\ sockets'[Len(sockets')].token = sockets[i].token
            /\ stored' = stored]_vars

Live(socks) == {i \in 1..Len(socks) : socks[i].readyState \in {"CONNECTING", "OPEN"}}

\* C8: while the session is logged in at most one connection instance is
\* CONNECTING or OPEN, and a step that creates a connection creates one and
\* leaves every instance created before it neither CONNECTING nor OPEN.
C8_OneLiveConnection ==
  /\ [](Truthy(token) => Cardinality(Live(sockets)) <= 1)
  /\ [][Len(sockets') # Len(sockets)
          => /\ Len(sockets') = Len(sockets) + 1
             /\ Live(sockets') = {Len(sockets')}]_vars

\* a second connection is live after the first one, which was live when the
\* second was created, and the session is logged in
C8_Witness ==
  /\ Truthy(token)
  /\ Len(sockets) = 2
  /\ sockets[2].readyState = "OPEN"
  /\ sockets[1].readyState = "CLOSING"

\* C9: activeCellIndex is none or an index of the cell sequence.
C9_ActiveIndexValid ==
  activeCellIndex = NoCell \/ activeCellIndex \in CellIndexes

\* the first cell of the three-cell notebook was deleted while a later cell
\* was active, then a cell was inserted after the active cell
C9_Witness ==
  /\ content # NoContent
  /\ isDirty
  /\ Len(content[1].cells) = 3
  /\ activeCellIndex = 2
  /\ content[1].cells[1].cell_type = "markdown"
  /\ content[1].cells[3] = EMPTY_MARKDOWN_CELL

\* C10: a step in which a connection closes with code 1008 removes the stored
\* credential, leaves the session logged out, creates no connection and
\* arms no reconnection timer.
C10_AuthRejectionLogsOut ==
  [][\A i \in SocketIds : \A event \in CloseEvents :
       (event.code = 1008 /\ WsClose(i, event))
         => /\ stored' = NullToken
            /\ token' = NullToken
            /\ sockets' = [sockets EXCEPT ![i].readyState = "CLOSED",
                                          ![i].outbox = <<>>,
                                          ![i].closed = <<event>>]
            /\ reconnect' = reconnect]_vars

\* a connection of a logged-in session was closed with code 1008 and the
\* session is logged out, at the login route
C10_Witness ==
  /\ token = NullToken
  /\ stored = NullToken
  /\ route = "/login"
  /\ \E i \in SocketIds :
       /\ sockets[i].closed # <<>>
       /\ sockets[i].closed[1].code = 1008
       /\ sockets[i].token = <<"a">>

\* a step that is a cell mutation of the open notebook: a source changed
\* or a cell added (no mutation sends or answers a storage request)
CellMutation ==
  /\ currentNotebook # NoName
  /\ content # NoContent
  /\ pending' = pending
  /\ \/ \E index \in CellIndexes : \E text \in Texts : CellChange(index, text)
     \/ \E type \in {"code", "markdown"} : AddCell(type)

C12_RunNotConnected ==
  [][\A index \in CellIndexes :
       (~IsOpen(Cur) /\ RunCell(index))
         => /\ sockets' = sockets
            /\ OutputsOf(content') = OutputsOf(content)
            /\ status' = St("Kernel nao conectado. Tente recarregar.")
            /\ hasError'
            /\ executingCellIndex' = NoCell]_vars

\* a run was refused on a connection that is not OPEN, with a Document
\* loaded whose first cell had been run before
C12_Witness ==
  /\ status = St("Kernel nao conectado. Tente recarregar.")
  /\ hasError
  /\ activeCellIndex = 0
  /\ executingCellIndex = NoCell
  /\ ~IsOpen(Cur)
  /\ content # NoContent
  /\ content[1].cells[1].outputs = <<StatusOutput>>

\* C13: on a Document of exactly one cell a deletion that is not confirmed
\* leaves the cells, activeCellIndex and the dirty flag unchanged, and a
\* confirmed one removes the cell.
C13_LastCellNeedsConfirmation ==
  [][(content # NoContent /\ Len(content[1].cells) = 1)
       => /\ DeleteCell(0, FALSE)
               => /\ content' = content
                  /\ activeCellIndex' = activeCellIndex
                  /\ isDirty' = isDirty
          /\ DeleteCell(0, TRUE)
               => /\ content'[1].cells = <<>>
                  /\ isDirty']_vars

\* a Document of one cell that is active and edited, on which the deletion
\* can be asked for
C13_Witness ==
  /\ UiVisible
  /\ content # NoContent
  /\ Len(content[1].cells) = 1
  /\ content[1].cells[1].source = SplitLines(<<"x", "\n", "y">>)
  /\ activeCellIndex = 0
  /\ isDirty

\* C14: moving the first cell up or the last cell down leaves the cells,
\* activeCellIndex and the dirty flag unchanged.
C14_MoveAtEdgeIsNoOp ==
  [][content # NoContent
       => \A direction \in {"up", "down"} :
            LET index == IF direction = "up" THEN 0 ELSE Len(content[1].cells) - 1
            IN MoveCell(index, direction)
                 => /\ content' = content
                    /\ activeCellIndex' = activeCellIndex
                    /\ isDirty' = isDirty]_vars

\* a clean Document of three cells with the middle cell active, on which
\* the first cell can be moved up and the last one down
C14_Witness ==
  /\ UiVisible
  /\ content # NoContent
  /\ Len(content[1].cells) = 3
  /\ activeCellIndex = 1
  /\ ~isDirty

\* C15: no markdown cell carries an Output with content.
C15_MarkdownHasNoOutput ==
  content # NoContent =>
    \A k \in 1..Len(content[1].cells) :
      content[1].cells[k].cell_type = "markdown"
        => \A o \in 1..Len(content[1].cells[k].outputs) :
             content[1].cells[k].outputs[o].content = <<>>

\* t ends with the text e
EndsWith(t, e) ==
  Len(e) <= Len(t) /\ SubSeq(t, Len(t) - Len(e) + 1, Len(t)) = e

\* C19: a step that processes a stream frame changes no cell when
\* activeCellIndex is none, and otherwise changes the cell at the
\* activeCellIndex of that moment only, whose Output then ends with the
\* content of the frame.
C19_StreamGoesToActiveCell ==
  [][\A i \in SocketIds : \A data \in StreamFrames :
       WsMessage(i, data)
         => /\ activeCellIndex = NoCell => content' = content
            /\ activeCellIndex \in CellIndexes
                 => /\ Len(content'[1].cells) = Len(content[1].cells)
                    /\ \A k \in 1..Len(content[1].cells) :
                         k - 1 # activeCellIndex
                           => content'[1].cells[k] = content[1].cells[k]
                    /\ Len(content'[1].cells[activeCellIndex + 1].outputs) = 1
                    /\ EndsWith(content'[1].cells[activeCellIndex + 1].outputs[1].content,
                                data.content)]_vars

\* cell 0 was run, the user focused cell 2, and a stream frame went to
\* cell 2 while cell 0 kept its placeholder
C19_Witness ==
  /\ content # NoContent
  /\ executingCellIndex = 0
  /\ activeCellIndex = 2
  /\ content[1].cells[1].outputs = <<StatusOutput>>
  /\ content[1].cells[3].outputs = <<[type |-> "stdout", content |-> Str_hi]>>

\* what a declined discard confirmation leaves as it is: the Document, the
\* current notebook name, the dirty flag, activeCellIndex, and the storage
\* service with the requests sent to it
NothingDiscarded ==
  /\ content' = content
  /\ currentNotebook' = currentNotebook
  /\ isDirty' = isDirty
  /\ activeCellIndex' = activeCellIndex
  /\ store' = store
  /\ pending' = pending
  /\ fetches' = fetches

\* C16: a step in which the discard confirmation of an open or of a create
\* is declined changes nothing, and the operation it declines has sent no
\* storage request: none of its requests is outstanding or answered.
C16_DeclinedDiscardChangesNothing ==
  [][/\ \A filename \in Names :
          (isDirty /\ OpenNotebook(filename, FALSE)) => NothingDiscarded
     /\ \A filename \in Prompts :
          (isDirty /\ NewNotebook(FALSE, filename)) => NothingDiscarded
     /\ \A req \in pending : \A ok \in BOOLEAN :
          (req.op = "created" /\ req.dirty /\ NewNotebookListed(req, ok, FALSE))
            => NothingDiscarded]_vars

C18_OtherClosureIsAnError ==
  [][\A i \in SocketIds : \A event \in CloseEvents :
       (/\ event.code # 1008
        /\ event.reason # "Kernel restarting"
        /\ WsClose(i, event))
         => /\ hasError'
            /\ executingCellIndex' = NoCell
            /\ resourceStats' = NoStats
            /\ token' = token
            /\ stored' = stored
            /\ Len(sockets') = Len(sockets)
            /\ reconnect' = reconnect]_vars

\* the only connection failed (code 1006) during an execution: the error
\* flag is set, the session is still logged in and nothing reconnects
C18_Witness ==
  /\ Len(sockets) = 1
  /\ sockets[1].closed = <<[code |-> 1006, reason |-> ""]>>
  /\ hasError
  /\ executingCellIndex = NoCell
  /\ resourceStats = NoStats
  /\ token = <<"a">>
  /\ stored = <<"a">>
  /\ reconnect = {}
  /\ content # NoContent
  /\ content[1].cells[1].outputs = <<StatusOutput>>

\* the Output of a cell, a cell without one counting as an empty stdout
PriorOutput(outputs) ==
  IF outputs = <<>> THEN [type |-> "stdout", content |-> <<>>] ELSE outputs[1]

\* C20: the non-streamed Output of a run replaces the Output of the cell
\* wholesale; a streamed Output applied to a cell whose prior Output is of
\* kind stdout or stderr (none counting as an empty stdout) keeps the prior
\* kind and appends its content to the prior content.
C20_ApplyOutput ==
  [][/\ \A index \in CellIndexes :
          (/\ IsOpen(Cur)
           /\ content[1].cells[index + 1].cell_type = "code"
           /\ RunCell(index))
            => content'[1].cells[index + 1].outputs = <<StatusOutput>>
     /\ \A i \in SocketIds : \A data \in StreamFrames :
          (/\ activeCellIndex \in CellIndexes
           /\ PriorOutput(content[1].cells[activeCellIndex + 1].outputs).type
                 \in {"stdout", "stderr"}
           /\ WsMessage(i, data))
            => LET prior == PriorOutput(content[1].cells[activeCellIndex + 1].outputs)
               IN content'[1].cells[activeCellIndex + 1].outputs =
                    <<[type |-> prior.type,
                       content |-> prior.content \o data.content]>>]_vars

\* a streamed Output was appended to an Output of kind stderr, and a run
\* replaced an Output that held content by the placeholder
C20_Witness ==
  /\ content # NoContent
  /\ content[1].cells[3].outputs = <<[type |-> "stderr", content |-> <<"E">> \o Str_hi]>>
  /\ Len(content[1].cells[1].log) = 1
  /\ content[1].cells[1].outputs = <<StatusOutput>>

\* the frames a step added to the outbox of the connection of the state
Sent(frames) ==
  IF socket = 0 THEN sockets' = sockets /\ frames = <<>>
  ELSE sockets' = [sockets EXCEPT ![socket].outbox = @ \o frames]

\* C21: a stop sends exactly one stop_execution frame when the connection
\* is OPEN and none otherwise; a restart sends exactly one restart_kernel
\* frame when the connection is OPEN and the user confirmed, and none
\* otherwise; neither changes executingCellIndex, activeCellIndex or the
\* Document.
C21_StopAndRestartOnlySend ==
  [][/\ StopExecution
          => /\ Sent(IF IsOpen(Cur)
                       THEN <<[action |-> "stop_execution", code |-> <<>>]>>
                       ELSE <<>>)
             /\ UNCHANGED <<executingCellIndex, activeCellIndex, content>>
     /\ \A confirmed \in BOOLEAN :
          RestartKernel(confirmed)
            => /\ Sent(IF IsOpen(Cur) /\ confirmed
                         THEN <<[action |-> "restart_kernel", code |-> <<>>]>>
                         ELSE <<>>)
               /\ UNCHANGED <<executingCellIndex, activeCellIndex, content>>]_vars

\* during the execution of cell 0 a stop and then a restart were sent on
\* the open connection, and the cell is still the executing one
C21_Witness ==
  /\ IsOpen(Cur)
  /\ sockets[socket].outbox = <<[action |-> "stop_execution", code |-> <<>>],
                                [action |-> "restart_kernel", code |-> <<>>]>>
  /\ executingCellIndex = 0
  /\ content # NoContent
  /\ content[1].cells[1].outputs = <<StatusOutput>>

\* C22: a step that processes a filesystem_update, resource_stats or
\* disk_stats frame leaves the Document, activeCellIndex, executingCellIndex
\* and the dirty flag unchanged; a resource_stats frame replaces ram and cpu
\* and preserves disk, a disk_stats frame replaces disk and preserves ram and
\* cpu, and a filesystem_update frame leaves resourceStats as it is.
C22_SideFramesTouchStatsOnly ==
  [][\A i \in SocketIds : \A data \in SideFrames :
       WsMessage(i, data)
         => /\ UNCHANGED <<content, activeCellIndex, executingCellIndex, isDirty>>
            /\ data.type = "filesystem_update" => resourceStats' = resourceStats
            /\ data.type = "resource_stats"
                 => /\ resourceStats' # NoStats
                    /\ resourceStats'[1].ram = <<data.content>>
                    /\ resourceStats'[1].cpu = <<data.content>>
                    /\ resourceStats'[1].disk =
                         IF resourceStats = NoStats THEN <<>> ELSE resourceStats[1].disk
            /\ data.type = "disk_stats"
                 => /\ resourceStats' # NoStats
                    /\ resourceStats'[1].disk = <<data.content>>
                    /\ resourceStats'[1].ram =
                         IF resourceStats = NoStats THEN <<>> ELSE resourceStats[1].ram
                    /\ resourceStats'[1].cpu =
                         IF resourceStats = NoStats THEN <<>> ELSE resourceStats[1].cpu]_vars

\* during the execution of an edited cell the stats hold a disk value and
\* ram and cpu values that a later frame brought
C22_Witness ==
  /\ resourceStats = <<[ram |-> <<2>>, cpu |-> <<2>>, disk |-> <<1>>]>>
  /\ isDirty
  /\ executingCellIndex = 0
  /\ activeCellIndex = 0

\* C23: a step that processes a frame whose type is none of stream, stdout,
\* stderr, filesystem_update, resource_stats and disk_stats leaves
\* executingCellIndex none and the Document, activeCellIndex and
\* resourceStats unchanged.
C23_UnknownFrameClearsExecuting ==
  [][\A i \in SocketIds : \A data \in UnknownFrames :
       WsMessage(i, data)
         => /\ executingCellIndex' = NoCell
            /\ UNCHANGED <<content, activeCellIndex, resourceStats>>]_vars

\* the run of cell 0 showed its placeholder, stats arrived, and a frame of
\* an unknown type switched the loader off on the open connection
C23_Witness ==
  /\ IsOpen(Cur)
  /\ content # NoContent
  /\ content[1].cells[1].outputs = <<StatusOutput>>
  /\ activeCellIndex = 0
  /\ resourceStats # NoStats
  /\ executingCellIndex = NoCell

\* C24: a run of the code cell i on an OPEN connection, with a Document
\* loaded, leaves activeCellIndex i and the Output of cell i the status
\* placeholder, and sends exactly one frame, an execute frame whose code is
\* the source lines of cell i joined by newline; when the source of the cell
\* is what setCellSource stored for a text, the code sent is that text.
C24_RunSendsTheSource ==
  [][\A index \in CellIndexes :
       (/\ IsOpen(Cur)
        /\ content[1].cells[index + 1].cell_type = "code"
        /\ RunCell(index))
         => /\ activeCellIndex' = index
            /\ content'[1].cells[index + 1].outputs = <<StatusOutput>>
            /\ Sent(<<[action |-> "execute",
                       code |-> JoinLines(content[1].cells[index + 1].source)]>>)
            /\ \A text \in SourceTexts :
                 content[1].cells[index + 1].source = SplitLines(text)
                   => sockets'[socket].outbox[Len(sockets'[socket].outbox)].code = text]_vars

\* the source of cell 0 was set to a text of two lines and then to one
\* with an empty last line, and each was run: the connection carries both
C24_Witness ==
  /\ IsOpen(Cur)
  /\ sockets[socket].outbox = <<[action |-> "execute", code |-> <<"x", "\n", "y">>],
                                [action |-> "execute", code |-> <<"x", "\n">>]>>
  /\ activeCellIndex = 0
  /\ content[1].cells[1].outputs = <<StatusOutput>>

\* C25: an insertion on a loaded Document puts one cell of the template of
\* the kind at position activeCellIndex + 1, or at the end when
\* activeCellIndex is none; the cells before it keep their places, the cells
\* after it move one place down, activeCellIndex becomes the position of the
\* new cell and the dirty flag becomes true.
C25_InsertAfterActive ==
  [][\A type \in {"code", "markdown"} :
       (content # NoContent /\ AddCell(type))
         => LET cs == content[1].cells
                p == IF activeCellIndex # NoCell THEN activeCellIndex + 1 ELSE Len(cs)
            IN /\ Len(content'[1].cells) = Len(cs) + 1
               /\ content'[1].cells[p + 1] =
                    (IF type = "code" THEN EMPTY_CODE_CELL ELSE EMPTY_MARKDOWN_CELL)
               /\ \A k \in 1..p : content'[1].cells[k] = cs[k]
               /\ \A k \in (p + 1)..Len(cs) : content'[1].cells[k + 1] = cs[k]
               /\ activeCellIndex' = p
               /\ isDirty']_vars

\* a code cell was inserted between two markdown cells, after the first
\* one, which was active, and is the active cell
C25_Witness ==
  /\ content # NoContent
  /\ content[1].cells = <<EMPTY_MARKDOWN_CELL, EMPTY_CODE_CELL, EMPTY_MARKDOWN_CELL>>
  /\ activeCellIndex = 1
  /\ isDirty

\* C26: a deletion (confirmed, when the cell is the only one) removes the
\* cell at the index, the others keeping their order, leaves the dirty flag
\* true, and leaves activeCellIndex at index - 1 (none for index 0) if it was
\* the index, one less if it was greater, and unchanged if it was less or
\* none.
C26_DeleteRederivesActive ==
  [][\A index \in CellIndexes : \A confirmed \in BOOLEAN :
       (/\ Len(content[1].cells) > 1 \/ confirmed
        /\ DeleteCell(index, confirmed))
         => LET cs == content[1].cells
            IN /\ Len(content'[1].cells) = Len(cs) - 1
               /\ \A k \in 1..index : content'[1].cells[k] = cs[k]
               /\ \A k \in (index + 1)..(Len(cs) - 1) : content'[1].cells[k] = cs[k + 1]
               /\ isDirty'
               /\ activeCellIndex = index
                    => activeCellIndex' = (IF index = 0 THEN NoCell ELSE index - 1)
               /\ activeCellIndex > index => activeCellIndex' = activeCellIndex - 1
               /\ activeCellIndex < index => activeCellIndex' = activeCellIndex]_vars

\* the first cell of the three of n1 was deleted while the last one was
\* active: two cells are left and the active one is the last
C26_Witness ==
  /\ content # NoContent
  /\ currentNotebook = "n1.ipynb"
  /\ content[1].cells = <<EMPTY_MARKDOWN_CELL, EMPTY_CODE_CELL>>
  /\ activeCellIndex = 1
  /\ isDirty

\* C27: a move whose target position is inside the cell sequence exchanges
\* the cell at the index with its neighbour in the direction, leaves every
\* other cell in place and the number of cells as it is, and leaves
\* activeCellIndex at the new position of the moved cell and the dirty flag
\* true.
C27_MoveSwapsNeighbours ==
  [][\A index \in CellIndexes : \A direction \in {"up", "down"} :
       LET newIndex == IF direction = "up" THEN index - 1 ELSE index + 1
           cs == content[1].cells
       IN (newIndex \in CellIndexes /\ MoveCell(index, direction))
            => /\ Len(content'[1].cells) = Len(cs)
               /\ content'[1].cells[newIndex + 1] = cs[index + 1]
               /\ content'[1].cells[index + 1] = cs[newIndex + 1]
               /\ \A k \in 1..Len(cs) :
                    k - 1 \notin {index, newIndex} => content'[1].cells[k] = cs[k]
               /\ activeCellIndex' = newIndex
               /\ isDirty']_vars

\* the markdown cell of n1 was moved up past the first code cell and is
\* the active cell
C27_Witness ==
  /\ content # NoContent
  /\ currentNotebook = "n1.ipynb"
  /\ content[1].cells = <<EMPTY_MARKDOWN_CELL, EMPTY_CODE_CELL, EMPTY_CODE_CELL>>
  /\ activeCellIndex = 0
  /\ isDirty

\* C28: a change of the source of the cell at an index of a loaded Document
\* stores the text split at newlines as the source of that cell, leaves every
\* other cell, the kind and the outputs of that cell and activeCellIndex
\* unchanged and the dirty flag true; with no Document loaded the handler
\* changes nothing, the dirty flag included.
C28_ChangeTouchesOneSource ==
  /\ [](content = NoContent
          => \A index \in 0..(MaxCells - 1) : \A text \in Texts :
               handleCellChange(Cur, index, text) = Cur)
  /\ [][\A index \in CellIndexes : \A text \in Texts :
          CellChange(index, text)
            => LET cs == content[1].cells
               IN /\ Len(content'[1].cells) = Len(cs)
                  /\ content'[1].cells[index + 1] =
                       [cs[index + 1] EXCEPT !.source = SplitLines(text)]
                  /\ \A k \in 1..Len(cs) :
                       k - 1 # index => content'[1].cells[k] = cs[k]
                  /\ activeCellIndex' = activeCellIndex
                  /\ isDirty']_vars

\* the source of the first cell of n1 is the two lines of a text typed
\* after the cell was run and while the last cell was the active one: the
\* cell shows its placeholder and the other cells are as loaded
C28_Witness ==
  /\ content # NoContent
  /\ content[1].cells =
       <<[EMPTY_CODE_CELL EXCEPT !.source = <<(<<"x">>), (<<"y">>)>>,
                                 !.outputs = <<StatusOutput>>,
                                 !.log = <<Event("set", StatusOutput)>>],
         EMPTY_MARKDOWN_CELL,
         EMPTY_CODE_CELL>>
  /\ activeCellIndex = 2
  /\ isDirty

\* the cells of c that are not code cells, and the sources of all cells
MarkdownAndSources(c) ==
  [k \in 1..Len(c[1].cells) |->
     IF c[1].cells[k].cell_type = "code"
       THEN [source |-> c[1].cells[k].source]
       ELSE [source |-> c[1].cells[k].source, cell |-> c[1].cells[k]]]

\* C29: a step that calls clearAllOutputs (the closure of a connection with
\* the reason "Kernel restarting") with a Document loaded leaves the outputs
\* of every code cell empty, every markdown cell, every source and the order
\* of the cells as they were, and the dirty flag unchanged.
C29_ClearAllOutputs ==
  [][\A i \in SocketIds :
       (/\ content # NoContent
        /\ WsClose(i, [code |-> 1000, reason |-> "Kernel restarting"]))
         => /\ content' # NoContent
            /\ MarkdownAndSources(content') = MarkdownAndSources(content)
            /\ isDirty' = isDirty
            /\ CodeCellsEmpty(content')]_vars

\* C30: a manual save of the open notebook leaves no autosave timer
\* pending, whether one was pending or not, and sends the write of the
\* Document in the same step; an autosave timer that expires was armed by
\* the last mutation, one delay before.
C30_ManualSaveCancelsTimer ==
  [][/\ SaveNow
          => /\ timeouts' = <<>>
             /\ ~autosaveTimer'
             /\ pending' = pending \cup {[op |-> "save", name |-> currentNotebook,
                                          doc |-> content]}
             /\ UNCHANGED <<content, isDirty, store>>
     /\ AutosaveTimeout => (autosaveTimer /\ elapsed = AutosaveDelay)]_vars

\* a manual save went out less than one delay after the last mutation:
\* the timer that mutation armed is gone and the write is outstanding
C30_Witness ==
  /\ isDirty
  /\ elapsed < AutosaveDelay
  /\ timeouts = <<>>
  /\ ~autosaveTimer
  /\ pending = {[op |-> "save", name |-> currentNotebook, doc |-> content]}

\* the kinds and the sources of the cells of a Document, in order
SourcesOf(c) ==
  [k \in 1..Len(c[1].cells) |->
     [cell_type |-> c[1].cells[k].cell_type, source |-> c[1].cells[k].source]]

\* C31: whenever a notebook is open and the dirty flag is false, the kinds
\* and sources of the cells of the Document are those of the notebook as the
\* storage service holds it (what was last written or loaded), also after a
\* save that was in flight while a cell was changed.
C31_CleanMeansStored ==
  (currentNotebook # NoName /\ content # NoContent /\ ~isDirty)
    => /\ store[currentNotebook] # NoContent
       /\ SourcesOf(content) = SourcesOf(store[currentNotebook])

\* C32: once the credential is none it stays none and no connection is
\* created until a login supplies a credential, also when a reconnection
\* timer armed before the logout fires.
C32_LoggedOutUntilLogin ==
  [][token = NullToken
       => \/ token' = NullToken /\ Len(sockets') = Len(sockets)
          \/ \E t \in Tokens : Login(t)]_vars

C34_OldCloseChangesNothing ==
  [][\A i \in SocketIds : \A event \in CloseEvents :
       (/\ socket # 0
        /\ i # socket
        /\ socket \in Live(sockets)
        /\ WsClose(i, event))
         => UNCHANGED <<executingCellIndex, resourceStats, hasError>>]_vars

\* a step that inserts, deletes or moves a cell
StructureStep ==
  \/ \E index \in CellIndexes : \E confirmed \in BOOLEAN : DeleteCell(index, confirmed)
  \/ \E index \in CellIndexes : \E direction \in {"up", "down"} : MoveCell(index, direction)
  \/ \E type \in {"code", "markdown"} : AddCell(type)

\* C35: after an insertion, a deletion or a move made while an execution is
\* in flight, executingCellIndex is an index of the Document at which the
\* cell that was run stands, or none if that cell is no longer in the
\* Document.
C35_ExecutingFollowsTheCell ==
  [][(Running /\ StructureStep)
       => LET ran == content[1].cells[executingCellIndex + 1]
              cs == content'[1].cells
          IN IF \E k \in 1..Len(cs) : cs[k] = ran
               THEN /\ executingCellIndex' \in 0..(Len(cs) - 1)
                    /\ cs[executingCellIndex' + 1] = ran
               ELSE executingCellIndex' = NoCell]_vars

C37_FramesLeaveTheTimer ==
  [][\A i \in SocketIds : \A data \in Frames :
       WsMessage(i, data) => UNCHANGED <<timeouts, autosaveTimer>>]_vars

\* C39: a stream or terminal frame processed while executingCellIndex is
\* none leaves the outputs of every cell unchanged.
C39_NoExecutionNoOutput ==
  [][\A i \in SocketIds : \A data \in [type : {"stream", "stdout", "stderr"}, content : Chunks] :
       (executingCellIndex = NoCell /\ WsMessage(i, data))
         => OutputsOf(content') = OutputsOf(content)]_vars

\* C38: the Document is dirty only while a Document is loaded.
C38_DirtyOnlyWithDocument == isDirty => content # NoContent

\* C40: while no cell is edited, the Document shown is the one the service
\* holds under currentNotebook, if it holds a notebook of that name: the
\* name and the Document are those of one notebook.
C40_NameAndDocumentOfOneNotebook ==
  (currentNotebook # NoName /\ content # NoContent /\ store[currentNotebook] # NoContent)
    => SourcesOf(content) = SourcesOf(store[currentNotebook])
====
